---- MODULE Spec2Model ----
(***************************************************************************)
(* Commit verification of tendermint-rs:                                   *)
(*   impl lite::Commit for block::signed_header::SignedHeader              *)
(* (tendermint/src/lite_impl/signed_header.rs).                            *)
(*                                                                         *)
(* Both operations are pure functions of a SignedHeader and a validator    *)
(* Set.  The state is the pair of inputs together with the result of each  *)
(* of the two calls; Init draws the inputs from bounded sets and the       *)
(* actions apply the operations.                                           *)
(*                                                                         *)
(* An Option<T> is a sequence of length at most one: None is <<>> and      *)
(* Some(v) is <<v>>.                                                       *)
(*                                                                         *)
(* A signature is modelled ideally: it records the key that produced it    *)
(* and the bytes it was produced over, and it verifies under a public key  *)
(* and a message exactly when both agree.                                  *)
(*                                                                         *)
(* Voting powers are u64 in the program.  The powers of the validators     *)
(* below are so small that no sum comes near 2^64, so the accumulation     *)
(* `signed_power += val.power()` is modelled by unbounded addition.        *)
(***************************************************************************)
EXTENDS Integers, Sequences, FiniteSets, TLC

VARIABLES sh, vals, power_result, validate_result

vars == <<sh, vals, power_result, validate_result>>

-----------------------------------------------------------------------------
(* Bounds *)

MaxPrecommits == 2

MaxValidators == 2

-----------------------------------------------------------------------------
(* Option<T> *)

None == <<>>

Some(v) == <<v>>

IsSome(o) == o # None

Unwrap(o) == o[1]

-----------------------------------------------------------------------------
(* Input domains *)

Addresses == {"A", "B", "C"}

Hashes == {"h1", "h2"}

ChainIds == {"chain-1", "chain-2"}

\* The names of chains and of hashes are interchangeable, so the signed
\* headers below are all of one chain and commit one block id; their votes
\* and signatures may be for either chain and either hash, and the hash of
\* their header may be either hash.
HeaderChainIds == {"chain-1"}

CommittedHashes == {"h1"}

\* The key pair of the account with the given address.
KeyOf(address) == <<"key", address>>

ForgedKey == <<"key", "forged">>

\* validator::Info: one validator per address, with pairwise distinct sums
\* of voting powers.
PowerOf(address) == CASE address = "A" -> 1
                      [] address = "B" -> 2
                      [] OTHER -> 4

Info(address) ==
    [address |-> address, pub_key |-> KeyOf(address), voting_power |-> PowerOf(address)]

\* The canonical bytes of a vote that are signed: they bind the chain id
\* and the block id voted for (type, height, round and timestamp are the
\* same for all votes here), and they do not contain the signer's address.
SignBytes(block_id, chain_id) == [chain_id |-> chain_id, block_id |-> block_id]

Sign(key, msg) == [signer |-> key, msg |-> msg]

\* The signatures a precommit of `address` for `block_id` may carry: one made
\* with the validator's own key for either chain, or one made with another key.
SignaturesFor(address, block_id) ==
    { Sign(KeyOf(address), SignBytes(block_id, c)) : c \in ChainIds }
        \cup { Sign(ForgedKey, SignBytes(block_id, c)) : c \in HeaderChainIds }

BlockIds == {None} \cup { Some(h) : h \in Hashes }

\* vote::Vote
Votes ==
    UNION { { [validator_address |-> ab[1], block_id |-> ab[2], signature |-> s]
                : s \in SignaturesFor(ab[1], ab[2]) }
            : ab \in Addresses \X BlockIds }

Slots == {None} \cup { Some(v) : v \in Votes }

SeqsUpTo(S, n) == UNION { [1..k -> S] : k \in 0..n }

\* validator::Set: addresses are unique within a set.
ValidatorSets ==
    { [i \in 1..Len(as) |-> Info(as[i])] :
        as \in { s \in SeqsUpTo(Addresses, MaxValidators) :
                    \A i, j \in 1..Len(s) : s[i] = s[j] => i = j } }

\* block::signed_header::SignedHeader
SignedHeaders ==
    [header : [chain_id : HeaderChainIds, hash : Hashes],
     commit : [block_id : [hash : CommittedHashes],
               precommits : SeqsUpTo(Slots, MaxPrecommits)]]

-----------------------------------------------------------------------------
(* Results *)

Ok(v) == [ok |-> TRUE, value |-> v]

Fail(kind, msg) == [ok |-> FALSE, kind |-> kind, msg |-> msg]

FaultyValidator(address) == [ok |-> FALSE, kind |-> "FaultyValidator", address |-> address]

NotCalled == [called |-> FALSE]

-----------------------------------------------------------------------------
(* Collaborators: validator::Set, validator::Info, vote::Vote,             *)
(* vote::SignedVote, block::Header                                         *)

\* Set::validators
validators(set) == set

\* Set::validator: the first validator of the set with the address.
validator(set, val_id) ==
    IF \E i \in 1..Len(set) : set[i].address = val_id
    THEN Some(set[CHOOSE i \in 1..Len(set) :
                    /\ set[i].address = val_id
                    /\ \A j \in 1..(i - 1) : set[j].address # val_id])
    ELSE None

\* Info::power
power(val) == val.voting_power

\* Info::verify_signature
verify_signature(val, sign_bytes, sig) ==
    sig.signer = val.pub_key /\ sig.msg = sign_bytes

\* Vote::header_hash: the hash of the block id voted for; a nil vote has none.
vote_header_hash(vote) == vote.block_id

\* SignedVote::new
SignedVote(vote, chain_id, validator_address, sig) ==
    [vote |-> vote, chain_id |-> chain_id,
     validator_address |-> validator_address, signature |-> sig]

\* SignedVote::validator_id
validator_id(sv) == sv.validator_address

\* SignedVote::signature
signature(sv) == sv.signature

\* SignedVote::sign_bytes
sign_bytes(sv) == SignBytes(sv.vote.block_id, sv.chain_id)

\* Header::hash
hash(header) == header.hash

-----------------------------------------------------------------------------
(* impl lite::Commit for SignedHeader *)

\* A header_hash that hashes the header instead of reading the commit.
header_hash_of_header(self) == hash(self.header)

header_hash(self) == self.commit.block_id.hash

iter(self) ==
    LET chain_id == self.header.chain_id
        votes == self.commit.precommits
    IN  [i \in 1..Len(votes) |->
            IF votes[i] = None
            THEN None
            ELSE LET vote == Unwrap(votes[i])
                 IN  Some(SignedVote(vote, chain_id, vote.validator_address,
                                     vote.signature))]

RECURSIVE voting_power_loop(_, _, _, _)
voting_power_loop(votes, validators_, i, signed_power) ==
    IF i > Len(votes)
    THEN Ok(signed_power)
    ELSE LET vote_opt == votes[i]
         IN  IF vote_opt = None
             THEN voting_power_loop(votes, validators_, i + 1, signed_power)
             ELSE LET vote == Unwrap(vote_opt)
                      val_id == validator_id(vote)
                      val_opt == validator(validators_, val_id)
                  IN  IF val_opt = None
                      THEN voting_power_loop(votes, validators_, i + 1, signed_power)
                      ELSE LET val == Unwrap(val_opt)
                               bytes == sign_bytes(vote)
                           IN  IF ~verify_signature(val, bytes, signature(vote))
                               THEN Fail("ImplementationSpecific",
                                         <<"Couldn't verify signature",
                                           signature(vote), val, bytes>>)
                               ELSE voting_power_loop(votes, validators_, i + 1,
                                                      signed_power + power(val))

\* Variants of the loop of voting_power_in, each with one slip:
\*   "skip"      a signature that does not verify is skipped, not fatal;
\*   "overwrite" the power is assigned to the total instead of added;
\*   "strict"    an unknown signer is an error, as it is in validate.
RECURSIVE slipped_power_loop(_, _, _, _, _)
slipped_power_loop(slip, votes, validators_, i, signed_power) ==
    IF i > Len(votes)
    THEN Ok(signed_power)
    ELSE IF votes[i] = None
    THEN slipped_power_loop(slip, votes, validators_, i + 1, signed_power)
    ELSE LET vote == Unwrap(votes[i])
             val_opt == validator(validators_, validator_id(vote))
         IN  IF val_opt = None
             THEN IF slip = "strict"
                  THEN FaultyValidator(validator_id(vote))
                  ELSE slipped_power_loop(slip, votes, validators_, i + 1, signed_power)
             ELSE LET val == Unwrap(val_opt)
                      bytes == sign_bytes(vote)
                  IN  IF ~verify_signature(val, bytes, signature(vote))
                      THEN IF slip = "skip"
                           THEN slipped_power_loop(slip, votes, validators_, i + 1,
                                                   signed_power)
                           ELSE Fail("ImplementationSpecific",
                                     <<"Couldn't verify signature",
                                       signature(vote), val, bytes>>)
                      ELSE slipped_power_loop(slip, votes, validators_, i + 1,
                                              IF slip = "overwrite"
                                              THEN power(val)
                                              ELSE signed_power + power(val))

voting_power_in_skipping_bad_signatures(self, validators_) ==
    slipped_power_loop("skip", iter(self), validators_, 1, 0)

voting_power_in_overwriting_total(self, validators_) ==
    slipped_power_loop("overwrite", iter(self), validators_, 1, 0)

voting_power_in_rejecting_unknown_signers(self, validators_) ==
    slipped_power_loop("strict", iter(self), validators_, 1, 0)

voting_power_in(self, validators_) ==
    voting_power_loop(iter(self), validators_, 1, 0)

RECURSIVE validate_loop(_, _, _)
validate_loop(self, vals_, i) ==
    IF i > Len(self.commit.precommits)
    THEN Ok(<<>>)
    ELSE LET precommit_opt == self.commit.precommits[i]
         IN  IF precommit_opt = None
             THEN validate_loop(self, vals_, i + 1)
             ELSE LET precommit == Unwrap(precommit_opt)
                      hh == vote_header_hash(precommit)
                  IN  IF IsSome(hh) /\ Unwrap(hh) # header_hash(self)
                      THEN Fail("ImplementationSpecific",
                                <<"voted for another header",
                                  precommit.validator_address, Unwrap(hh),
                                  header_hash(self)>>)
                      ELSE IF validator(vals_, precommit.validator_address) = None
                           THEN FaultyValidator(precommit.validator_address)
                           ELSE validate_loop(self, vals_, i + 1)

\* Variants of the loop of validate, each with one slip:
\*   "no-signer-check" the signer is not looked up in the set;
\*   "verify"          the signature of a known signer is verified as well.
RECURSIVE slipped_validate_loop(_, _, _, _)
slipped_validate_loop(slip, self, vals_, i) ==
    IF i > Len(self.commit.precommits)
    THEN Ok(<<>>)
    ELSE IF self.commit.precommits[i] = None
    THEN slipped_validate_loop(slip, self, vals_, i + 1)
    ELSE LET precommit == Unwrap(self.commit.precommits[i])
             hh == vote_header_hash(precommit)
             val_opt == validator(vals_, precommit.validator_address)
         IN  IF IsSome(hh) /\ Unwrap(hh) # header_hash(self)
             THEN Fail("ImplementationSpecific",
                       <<"voted for another header", precommit.validator_address,
                         Unwrap(hh), header_hash(self)>>)
             ELSE IF slip # "no-signer-check" /\ val_opt = None
             THEN FaultyValidator(precommit.validator_address)
             ELSE IF /\ slip = "verify"
                     /\ ~verify_signature(Unwrap(val_opt),
                                          SignBytes(precommit.block_id,
                                                    self.header.chain_id),
                                          precommit.signature)
             THEN Fail("ImplementationSpecific", <<"Couldn't verify signature">>)
             ELSE slipped_validate_loop(slip, self, vals_, i + 1)

validate_without_signer_check(self, vals_) ==
    IF Len(self.commit.precommits) # Len(validators(vals_))
    THEN Fail("ImplementationSpecific",
              <<"pre-commit length doesn't match validator length",
                Len(self.commit.precommits), Len(validators(vals_))>>)
    ELSE slipped_validate_loop("no-signer-check", self, vals_, 1)

validate_verifying_signatures(self, vals_) ==
    IF Len(self.commit.precommits) # Len(validators(vals_))
    THEN Fail("ImplementationSpecific",
              <<"pre-commit length doesn't match validator length",
                Len(self.commit.precommits), Len(validators(vals_))>>)
    ELSE slipped_validate_loop("verify", self, vals_, 1)

\* The length check only rejects a commit longer than the validator set.
validate_accepting_short_commits(self, vals_) ==
    IF Len(self.commit.precommits) > Len(validators(vals_))
    THEN Fail("ImplementationSpecific",
              <<"pre-commit length doesn't match validator length",
                Len(self.commit.precommits), Len(validators(vals_))>>)
    ELSE validate_loop(self, vals_, 1)

validate(self, vals_) ==
    IF Len(self.commit.precommits) # Len(validators(vals_))
    THEN Fail("ImplementationSpecific",
              <<"pre-commit length doesn't match validator length",
                Len(self.commit.precommits), Len(validators(vals_))>>)
    ELSE validate_loop(self, vals_, 1)

-----------------------------------------------------------------------------
(* The state machine *)

Init ==
    /\ sh \in SignedHeaders
    /\ vals \in ValidatorSets
    /\ power_result = NotCalled
    /\ validate_result = NotCalled

VotingPowerIn ==
    /\ power_result = NotCalled
    /\ power_result' = voting_power_in(sh, vals)
    /\ UNCHANGED <<sh, vals, validate_result>>

Validate ==
    /\ validate_result = NotCalled
    /\ validate_result' = validate(sh, vals)
    /\ UNCHANGED <<sh, vals, power_result>>

Next == VotingPowerIn \/ Validate

Spec == Init /\ [][Next]_vars

-----------------------------------------------------------------------------
(* Vocabulary of the properties *)

precommits == sh.commit.precommits

SlotIndexes == 1..Len(precommits)

PowerCalled == power_result # NotCalled

ValidateCalled == validate_result # NotCalled

\* Slot i holds a precommit ("non-nil precommit" of the specification).
Present(i) == precommits[i] # None

PrecommitAt(i) == Unwrap(precommits[i])

SignerKnown(i) == validator(vals, PrecommitAt(i).validator_address) # None

\* The signature of slot i verifies under the key of its (known) signer
\* over the sign-bytes of the vote for this header's chain.
SignatureVerifies(i) ==
    verify_signature(Unwrap(validator(vals, PrecommitAt(i).validator_address)),
                     SignBytes(PrecommitAt(i).block_id, sh.header.chain_id),
                     PrecommitAt(i).signature)

\* The signature of slot i is a genuine signature of the signer named in the
\* vote over the vote's own sign-bytes, for this header's chain.
GenuineSignature(i) ==
    PrecommitAt(i).signature =
        Sign(KeyOf(PrecommitAt(i).validator_address),
             SignBytes(PrecommitAt(i).block_id, sh.header.chain_id))

ReferencesBlock(i) == IsSome(PrecommitAt(i).block_id)

ReferencedHash(i) == Unwrap(PrecommitAt(i).block_id)

\* The signed header with the slots of S replaced by None.
Blank(self, S) ==
    [self EXCEPT !.commit.precommits =
        [i \in 1..Len(self.commit.precommits) |->
            IF i \in S THEN None ELSE self.commit.precommits[i]]]

RECURSIVE SumOver(_, _)
SumOver(f, S) ==
    IF S = {} THEN 0
    ELSE LET x == CHOOSE y \in S : TRUE IN f[x] + SumOver(f, S \ {x})

TotalPower(set) == SumOver([i \in 1..Len(set) |-> set[i].voting_power], 1..Len(set))

KnownBadSignatureSlots ==
    { i \in SlotIndexes : Present(i) /\ SignerKnown(i) /\ ~SignatureVerifies(i) }

UnknownSignerSlots == { i \in SlotIndexes : Present(i) /\ ~SignerKnown(i) }

WrongBlockSlots ==
    { i \in SlotIndexes :
        Present(i) /\ ReferencesBlock(i) /\ ReferencedHash(i) # sh.commit.block_id.hash }

NilVoteSlots == { i \in SlotIndexes : Present(i) /\ ~ReferencesBlock(i) }

-----------------------------------------------------------------------------
(* Properties of voting_power_in *)

\* C1: a present precommit that references a block hash other than this
\* signed header's hash contributes 0 to the total returned by
\* voting_power_in: an Ok result is the result for the commit without
\* those precommits.
C1_WrongBlockContributesNothing ==
    (PowerCalled /\ power_result.ok)
        => power_result = voting_power_in(Blank(sh, WrongBlockSlots), vals)

\* C2: an Ok result of voting_power_in is at most the total voting power of
\* the given validator set.
C2_PowerBoundedByTotal ==
    (PowerCalled /\ power_result.ok) => power_result.value <= TotalPower(vals)

\* C3: if some present precommit has a signer found in the set and a
\* signature that does not verify, voting_power_in returns an error of kind
\* ImplementationSpecific, wherever that precommit is and whatever else the
\* commit contains.
C3_KnownBadSignatureFails ==
    (PowerCalled /\ KnownBadSignatureSlots # {})
        => (~power_result.ok /\ power_result.kind = "ImplementationSpecific")

\* A commit whose last slot has a known signer with a bad signature, after a
\* verifying vote of another validator.
C3_Witness ==
    /\ PowerCalled
    /\ Len(precommits) = 2
    /\ Present(1) /\ SignerKnown(1) /\ SignatureVerifies(1)
    /\ 2 \in KnownBadSignatureSlots
    /\ ~power_result.ok

C5_UnknownSignerIgnored ==
    PowerCalled =>
        /\ power_result = voting_power_in(Blank(sh, UnknownSignerSlots), vals)
        /\ (\A i \in SlotIndexes : Present(i) => ~SignerKnown(i)) => power_result = Ok(0)
        /\ ~power_result.ok => KnownBadSignatureSlots # {}

\* An unknown signer with a forged signature next to a verifying vote of a
\* validator of the set.
C5_Witness ==
    /\ PowerCalled
    /\ Len(precommits) = 2
    /\ 1 \in UnknownSignerSlots /\ ~GenuineSignature(1)
    /\ Present(2) /\ SignerKnown(2) /\ SignatureVerifies(2)
    /\ power_result.ok /\ power_result.value > 0

\* C10: a present precommit without a block id (a nil vote) is skipped like
\* an absent one, without looking at its signature: the result of
\* voting_power_in is the result for the commit with the nil votes replaced
\* by None.
C10_NilVoteSkipped ==
    PowerCalled => power_result = voting_power_in(Blank(sh, NilVoteSlots), vals)

-----------------------------------------------------------------------------
(* Properties of validate *)

LengthsMatch == Len(precommits) = Len(validators(vals))

\* The first slot whose signer is not in the set.
FirstUnknownSigner ==
    CHOOSE i \in UnknownSignerSlots : \A j \in UnknownSignerSlots : i <= j

\* C6 as stated: validate fails with FaultyValidator carrying the address of
\* an absent signer whenever some present precommit's signer is not in the
\* validator set.
C6_FaultyValidatorWheneverUnknownSigner ==
    (ValidateCalled /\ UnknownSignerSlots # {})
        => /\ ~validate_result.ok
           /\ validate_result.kind = "FaultyValidator"
           /\ \E i \in UnknownSignerSlots :
                validate_result.address = PrecommitAt(i).validator_address

\* C6 amended: when some present precommit's signer is not in the validator
\* set, validate fails; it fails with FaultyValidator carrying the address
\* of the first such precommit when the lengths match and no precommit up to
\* and including that one references a hash other than header_hash(), and
\* with ImplementationSpecific otherwise.
C6_FaultyValidatorAfterLengthAndHash ==
    (ValidateCalled /\ UnknownSignerSlots # {})
        => IF LengthsMatch /\ \A j \in WrongBlockSlots : j > FirstUnknownSigner
           THEN validate_result =
                    FaultyValidator(PrecommitAt(FirstUnknownSigner).validator_address)
           ELSE ~validate_result.ok /\ validate_result.kind = "ImplementationSpecific"

\* A well-formed precommit of a validator of the set followed by a precommit
\* of a signer outside it.
C6_Witness ==
    /\ ValidateCalled
    /\ Len(precommits) = 2 /\ LengthsMatch
    /\ Present(1) /\ SignerKnown(1) /\ 1 \notin WrongBlockSlots
    /\ UnknownSignerSlots = {2}
    /\ validate_result = FaultyValidator(PrecommitAt(2).validator_address)

\* C7 as stated: validate fails whenever some present precommit references
\* a hash other than the hash of the header held in the signed header; when
\* validate succeeds, every present precommit that references a block
\* references that hash.
C7_VotesForOwnHeaderHash ==
    ValidateCalled =>
        /\ (\E i \in SlotIndexes :
                Present(i) /\ ReferencesBlock(i) /\ ReferencedHash(i) # hash(sh.header))
            => ~validate_result.ok
        /\ validate_result.ok
            => \A i \in SlotIndexes :
                (Present(i) /\ ReferencesBlock(i)) => ReferencedHash(i) = hash(sh.header)

\* C7 amended: the hash validate compares with is header_hash(), the hash of
\* the commit's block id: validate fails whenever some present precommit
\* references another hash, and when it succeeds every present precommit
\* that references a block references commit.block_id.hash.
C7_VotesForCommitBlockId ==
    ValidateCalled =>
        /\ WrongBlockSlots # {} => ~validate_result.ok
        /\ validate_result.ok
            => \A i \in SlotIndexes :
                (Present(i) /\ ReferencesBlock(i))
                    => ReferencedHash(i) = sh.commit.block_id.hash

\* A commit of the right length, all signers known, whose last precommit is
\* for another block.
C7_Witness ==
    /\ ValidateCalled
    /\ Len(precommits) = 2 /\ LengthsMatch
    /\ UnknownSignerSlots = {}
    /\ WrongBlockSlots = {2}
    /\ ~validate_result.ok /\ validate_result.kind = "ImplementationSpecific"

\* C8: when the number of precommit slots differs from the number of
\* validators, validate fails with the length-mismatch error naming both
\* lengths (kind ImplementationSpecific), whatever the precommits contain.
C8_LengthMismatchFirst ==
    (ValidateCalled /\ ~LengthsMatch)
        => validate_result =
            Fail("ImplementationSpecific",
                 <<"pre-commit length doesn't match validator length",
                   Len(precommits), Len(vals)>>)

\* Fewer slots than validators, and the one precommit is for another block
\* and from a signer outside the set.
C8_Witness ==
    /\ ValidateCalled
    /\ Len(precommits) = 1 /\ Len(vals) = 2
    /\ 1 \in WrongBlockSlots /\ 1 \in UnknownSignerSlots
    /\ ~validate_result.ok /\ validate_result.kind = "ImplementationSpecific"

\* The slots that differ from `slot` at most in the signature.
ResignedSlots(slot) ==
    IF slot = None
    THEN {None}
    ELSE { Some([Unwrap(slot) EXCEPT !.signature = s]) :
            s \in SignaturesFor(Unwrap(slot).validator_address, Unwrap(slot).block_id) }

RECURSIVE ResignedPrefixes(_, _)
ResignedPrefixes(pcs, n) ==
    IF n = 0
    THEN {<<>>}
    ELSE { Append(q, slot) : q \in ResignedPrefixes(pcs, n - 1),
                             slot \in ResignedSlots(pcs[n]) }

\* The signed headers that differ from `self` at most in the signatures of
\* their precommits.
SignatureVariants(self) ==
    { [self EXCEPT !.commit.precommits = q] :
        q \in ResignedPrefixes(self.commit.precommits, Len(self.commit.precommits)) }

\* C9: validate does not look at signatures: every signed header that
\* differs from this one only in the signatures of its precommits has the
\* same outcome of validate against the same set; and a commit that passes
\* validate with a known validator's signature that does not verify makes
\* voting_power_in fail.
C9_ValidateIgnoresSignatures ==
    /\ ValidateCalled
        => \A other \in SignatureVariants(sh) : validate(other, vals) = validate_result
    /\ (ValidateCalled /\ PowerCalled /\ validate_result.ok /\ KnownBadSignatureSlots # {})
        => ~power_result.ok

\* Both operations called on a commit with a tampered signature of a
\* validator of the set.
C9_Witness ==
    /\ ValidateCalled /\ PowerCalled
    /\ KnownBadSignatureSlots # {}
    /\ \E i \in SlotIndexes : Present(i) /\ SignerKnown(i) /\ SignatureVerifies(i)
    /\ validate_result = Ok(<<>>)
    /\ ~power_result.ok

====
